---- MODULE Spec2Model ----
(***************************************************************************)
(* Data import, image auto-mapping, snapshot and undo of the site          *)
(* generator (modules/data_importer.py), as a state machine over the       *)
(* project's files: the content store, the snapshots directory, the image  *)
(* mapping, the issues CSV and the import log.                             *)
(*                                                                         *)
(* Text is a sequence of one-character strings, so that prefix, suffix,    *)
(* substring and lower-casing are computed as the code computes them.      *)
(* Python's None is the value None below; a dict is a record, and          *)
(* dict.get(k, d) is Get(r, k, d).                                         *)
(***************************************************************************)
EXTENDS Integers, Sequences, FiniteSets, TLC

(* ----------------------------- text ----------------------------------- *)

None == <<"<None>">>

Truthy(s) == s # None /\ s # <<>>

Get(r, k, d) == IF k \in DOMAIN r THEN r[k] ELSE d

StartsWith(s, p) == Len(p) <= Len(s) /\ SubSeq(s, 1, Len(p)) = p

EndsWith(s, p) == Len(p) <= Len(s) /\ SubSeq(s, Len(s) - Len(p) + 1, Len(s)) = p

Contains(s, p) == \E i \in 1..(Len(s) - Len(p) + 1) : SubSeq(s, i, i + Len(p) - 1) = p

UpperChars == [A |-> "a", B |-> "b", L |-> "l", M |-> "m"]

LowerChar(c) == IF c \in DOMAIN UpperChars THEN UpperChars[c] ELSE c

Lower(s) == [i \in 1..Len(s) |-> LowerChar(s[i])]

SlugChars == {"a", "b", "c", "l", "m", "p", "x", "A", "B", "L", "M",
              "0", "1", "2", "3", "4", "5", "6", "7", "8", "9", "-", "_", "/"}

Digits == <<"1", "2", "3", "4", "5", "6", "7", "8", "9">>

Http == <<"h", "t", "t", "p">>

MainSuffix == <<"_", "m", "a", "i", "n">>

image_extensions == << <<".", "j", "p", "g">>,
                       <<".", "j", "p", "e", "g">>,
                       <<".", "p", "n", "g">>,
                       <<".", "w", "e", "b", "p">>,
                       <<".", "g", "i", "f">> >>

RECURSIVE Flatten(_)
Flatten(ss) == IF ss = <<>> THEN <<>> ELSE Head(ss) \o Flatten(Tail(ss))

RECURSIVE Filter(_, _)
Filter(s, keep) ==
    IF s = <<>> THEN <<>>
    ELSE (IF Head(s) \in keep THEN <<Head(s)>> ELSE <<>>) \o Filter(Tail(s), keep)

Range(s) == {s[i] : i \in 1..Len(s)}

(* ------------------------- image resolver ----------------------------- *)
(* An image directory is [exists, files, listing]: whether the directory   *)
(* is there, the set of file names in it, and the order os.listdir         *)
(* returns them in.                                                        *)

\* an enumeration with the separator outermost: all {slug}_{i} before all {slug}-{i}
_find_extra_images_BySeparator(slug, dir) ==
    IF ~dir.exists THEN <<>>
    ELSE Flatten([s \in 1..2 |->
           Flatten([i \in 1..9 |->
             Flatten([e \in 1..Len(image_extensions) |->
               LET extra_file == slug \o <<(<<"_", "-">>)[s]>> \o <<Digits[i]>> \o image_extensions[e]
               IN  IF extra_file \in dir.files THEN <<extra_file>> ELSE <<>>])])])

\* the names {slug}{sep}{i}{ext} that exist, i outermost, then separator, then extension
_find_extra_images(slug, dir) ==
    IF ~dir.exists THEN <<>>
    ELSE Flatten([i \in 1..9 |->
           Flatten([s \in 1..2 |->
             Flatten([e \in 1..Len(image_extensions) |->
               LET extra_file == slug \o <<(<<"_", "-">>)[s]>> \o <<Digits[i]>> \o image_extensions[e]
               IN  IF extra_file \in dir.files THEN <<extra_file>> ELSE <<>>])])])

\* directory entries whose lower-cased name starts with the lower-cased slug and ends in an image extension
_fuzzy_match_images(slug, dir) ==
    IF ~dir.exists THEN <<>>
    ELSE Filter(dir.listing,
                {f \in Range(dir.listing) :
                    /\ StartsWith(Lower(f), Lower(slug))
                    /\ \E e \in 1..Len(image_extensions) : EndsWith(Lower(f), image_extensions[e])})

ExactCandidates(slug, dir) ==
    Flatten([e \in 1..Len(image_extensions) |->
        (IF slug \o image_extensions[e] \in dir.files
            THEN <<slug \o image_extensions[e]>> ELSE <<>>)
        \o
        (IF slug \o MainSuffix \o image_extensions[e] \in dir.files
            THEN <<slug \o MainSuffix \o image_extensions[e]>> ELSE <<>>)])

\* a resolver that prefers a local file of the slug to a specified URL
_map_images_for_slug_LocalFirst(slug, specified_image, dir) ==
    IF Truthy(specified_image) /\ StartsWith(specified_image, Http)
       /\ (~dir.exists \/ ExactCandidates(slug, dir) = <<>>)
    THEN [main_image |-> specified_image, extra_images |-> <<>>,
          main_candidates |-> <<specified_image>>, confidence |-> "external"]
    ELSE IF ~dir.exists
    THEN [main_image |-> None, extra_images |-> <<>>,
          main_candidates |-> <<>>, confidence |-> "none"]
    ELSE [main_image |-> IF ExactCandidates(slug, dir) = <<>> THEN None
                         ELSE ExactCandidates(slug, dir)[1],
          extra_images |-> _find_extra_images(slug, dir),
          main_candidates |-> ExactCandidates(slug, dir),
          confidence |-> IF ExactCandidates(slug, dir) = <<>> THEN "none" ELSE "exact"]

_map_images_for_slug(slug, specified_image, dir) ==
    IF Truthy(specified_image) /\ StartsWith(specified_image, Http)
    THEN [main_image |-> specified_image, extra_images |-> <<>>,
          main_candidates |-> <<specified_image>>, confidence |-> "external"]
    ELSE IF Truthy(specified_image) /\ dir.exists /\ specified_image \in dir.files
    THEN [main_image |-> specified_image, extra_images |-> _find_extra_images(slug, dir),
          main_candidates |-> <<specified_image>>, confidence |-> "manual"]
    ELSE IF ~dir.exists
    THEN [main_image |-> None, extra_images |-> <<>>,
          main_candidates |-> <<>>, confidence |-> "none"]
    ELSE
      LET exact == ExactCandidates(slug, dir)
          main_candidates == IF exact = <<>> THEN _fuzzy_match_images(slug, dir) ELSE exact
          main_variants == Filter(main_candidates,
                                  {c \in Range(main_candidates) : Contains(c, MainSuffix)})
          main_image == IF main_candidates = <<>> THEN None
                        ELSE IF main_variants # <<>> THEN main_variants[1]
                        ELSE main_candidates[1]
          confidence == IF main_candidates = <<>> THEN "none"
                        ELSE IF main_variants # <<>> THEN "exact"
                        ELSE IF Len(main_candidates) = 1 THEN "exact" ELSE "fuzzy"
      IN [main_image |-> main_image, extra_images |-> _find_extra_images(slug, dir),
          main_candidates |-> main_candidates, confidence |-> confidence]

(* --------------------------- spreadsheet cells ------------------------- *)
(* A row read by pandas is a record of cells; a column the sheet lacks is   *)
(* a field the record lacks.  A cell is text, a number (in hundredths), or  *)
(* NaN (the cell is empty).                                                 *)

NaN == [k |-> "nan"]

Text(s) == [k |-> "str", v |-> s]

Num(n) == [k |-> "num", v |-> n]

DigitChars == <<"0", "1", "2", "3", "4", "5", "6", "7", "8", "9">>

DigitValue(c) == (CHOOSE i \in 1..10 : DigitChars[i] = c) - 1

IsDigit(c) == c \in Range(DigitChars)

RECURSIVE NatToStr(_)
NatToStr(n) == IF n < 10 THEN <<DigitChars[n + 1]>>
               ELSE NatToStr(n \div 10) \o <<DigitChars[(n % 10) + 1]>>

RECURSIVE StrToNat(_)
StrToNat(s) == IF s = <<>> THEN 0
               ELSE StrToNat(SubSeq(s, 1, Len(s) - 1)) * 10 + DigitValue(s[Len(s)])

\* str(x) of Python for a cell value: 'nan' for NaN, the shortest decimal for a number
Str(cell) ==
    IF cell.k = "str" THEN cell.v
    ELSE IF cell.k = "nan" THEN <<"n", "a", "n">>
    ELSE LET a == IF cell.v < 0 THEN -cell.v ELSE cell.v
             sign == IF cell.v < 0 THEN <<"-">> ELSE <<>>
             frac == a % 100
         IN sign \o NatToStr(a \div 100) \o <<".">> \o
            (IF frac % 10 = 0 THEN NatToStr(frac \div 10)
             ELSE <<DigitChars[(frac \div 10) + 1], DigitChars[(frac % 10) + 1]>>)

RECURSIVE LStrip(_)
LStrip(s) == IF s # <<>> /\ Head(s) = " " THEN LStrip(Tail(s)) ELSE s

RECURSIVE RStrip(_)
RStrip(s) == IF s # <<>> /\ s[Len(s)] = " " THEN RStrip(SubSeq(s, 1, Len(s) - 1)) ELSE s

Strip(s) == RStrip(LStrip(s))

Remove(s, c) == Filter(s, Range(s) \ {c})

\* float(s): [ok, nan, v] with v in hundredths; ok = FALSE is ValueError
ParseFloat(raw) ==
    LET s == Strip(raw)
        neg == s # <<>> /\ Head(s) = "-"
        u == IF s # <<>> /\ Head(s) \in {"-", "+"} THEN Tail(s) ELSE s
        dots == {i \in 1..Len(u) : u[i] = "."}
        dot == IF dots = {} THEN Len(u) + 1 ELSE CHOOSE i \in dots : TRUE
        ip == SubSeq(u, 1, dot - 1)
        fp == SubSeq(u, dot + 1, Len(u))
        f2 == SubSeq(fp \o <<"0", "0">>, 1, 2)
        mag == StrToNat(ip) * 100 + StrToNat(f2)
    IN IF Lower(u) = <<"n", "a", "n">> THEN [ok |-> TRUE, nan |-> TRUE, v |-> 0]
       ELSE IF /\ Cardinality(dots) <= 1
               /\ Len(ip) + Len(fp) > 0
               /\ \A i \in 1..Len(ip) : IsDigit(ip[i])
               /\ \A i \in 1..Len(fp) : IsDigit(fp[i])
            THEN [ok |-> TRUE, nan |-> FALSE, v |-> IF neg THEN -mag ELSE mag]
            ELSE [ok |-> FALSE, nan |-> FALSE, v |-> 0]

(* ----------------------------- row validator --------------------------- *)

VALID == "valid"                 \* the check mark
ORANGE == "warning"              \* orange: fuzzy match, or no image found
EXTERNAL == "external-url"       \* blue
MULTIPLE == "multiple-candidates" \* purple
INVALID == "invalid"             \* red

_is_url_safe(slug) ==
    /\ \A i \in 1..Len(slug) :
          \/ IsDigit(slug[i])
          \/ slug[i] \in {"-", "_", "/"}
          \/ slug[i] \in {"a", "b", "c", "l", "m", "n", "p", "x"}
          \/ slug[i] \in DOMAIN UpperChars
    /\ slug = Lower(slug)

\* a message: its fixed text and the names the f-string puts into it
Msg(text, args) == [text |-> text, args |-> args]

RowError(message, slug, title, idx) ==
    [status |-> INVALID, message |-> Msg(message, <<>>), slug |-> slug, title |-> title,
     row |-> idx + 2]

_validate_product_row(row, idx, dir) ==
    LET title == Strip(Str(Get(row, "title", Text(<<>>))))
        slug == Strip(Str(Get(row, "slug", Text(<<>>))))
        price == Get(row, "price", Text(<<>>))
        price_num == ParseFloat(Remove(Remove(Str(price), "$"), ","))
        image_main == Strip(Str(Get(row, "image_main", Text(<<>>))))
        image_results == _map_images_for_slug(slug, image_main, dir)
        first == IF Truthy(image_results.main_image)
                 THEN IF StartsWith(image_results.main_image, Http)
                      THEN [status |-> EXTERNAL, message |-> Msg("External image URL", <<>>)]
                      ELSE IF image_results.confidence = "exact"
                      THEN [status |-> VALID, message |-> Msg("All fields valid", <<>>)]
                      ELSE IF image_results.confidence = "fuzzy"
                      THEN [status |-> ORANGE,
                            message |-> Msg("Fuzzy image match", <<image_results.main_image>>)]
                      ELSE [status |-> VALID, message |-> Msg("Manual image specified", <<>>)]
                 ELSE [status |-> ORANGE, message |-> Msg("No main image found", <<>>)]
        final == IF Len(image_results.main_candidates) > 1
                 THEN [status |-> MULTIPLE,
                       message |-> Msg("Multiple main images found", image_results.main_candidates)]
                 ELSE first
    IN IF ~Truthy(title) THEN RowError("Missing title", slug, title, idx)
       ELSE IF ~Truthy(slug) THEN RowError("Missing slug", slug, title, idx)
       ELSE IF ~_is_url_safe(slug) THEN RowError("Slug not URL-safe", slug, title, idx)
       ELSE IF ~price_num.ok THEN RowError("Price must be numeric", slug, title, idx)
       ELSE IF ~price_num.nan /\ price_num.v < 0
            THEN RowError("Price cannot be negative", slug, title, idx)
       ELSE [status |-> final.status, message |-> final.message, slug |-> slug,
             title |-> title, price |-> price_num, row |-> idx + 2,
             image_main |-> image_results.main_image,
             image_extras |-> image_results.extra_images,
             image_candidates |-> image_results.main_candidates,
             data |-> row]

_validate_page_row(row, idx, dir) ==
    LET title == Strip(Str(Get(row, "title", Text(<<>>))))
        slug == Strip(Str(Get(row, "slug", Text(<<>>))))
        hero_image == Strip(Str(Get(row, "hero_image", Text(<<>>))))
        image_results == _map_images_for_slug(slug, hero_image, dir)
    IN IF ~Truthy(title) THEN RowError("Missing title", slug, title, idx)
       ELSE IF ~Truthy(slug) THEN RowError("Missing slug", slug, title, idx)
       ELSE IF ~_is_url_safe(slug) THEN RowError("Slug not URL-safe", slug, title, idx)
       ELSE [status |-> IF Truthy(image_results.main_image)
                           /\ StartsWith(image_results.main_image, Http)
                        THEN EXTERNAL ELSE VALID,
             message |-> IF Truthy(image_results.main_image)
                         THEN IF StartsWith(image_results.main_image, Http)
                              THEN Msg("External hero image", <<>>)
                              ELSE Msg("All fields valid", <<>>)
                         ELSE Msg("Valid (no hero image)", <<>>),
             slug |-> slug, title |-> title, row |-> idx + 2,
             hero_image |-> image_results.main_image,
             data |-> row]

(* --------------------------- spreadsheet files ------------------------- *)
(* An uploaded file is NoFile, or [k, readable, columns, rows]: whether     *)
(* pandas can read it, its column names, and its rows.                      *)

NoFile == [k |-> "none"]

Sheet(columns, rows) == [k |-> "xlsx", readable |-> TRUE, columns |-> columns, rows |-> rows]

Unreadable == [k |-> "xlsx", readable |-> FALSE, columns |-> {}, rows |-> <<>>]

CountStatus(rows, statuses) == Cardinality({i \in 1..Len(rows) : rows[i].status \in statuses})

RowIssues(rows, warnings) ==
    Flatten([i \in 1..Len(rows) |->
        IF rows[i].status \in ({VALID} \cup warnings) THEN <<>>
        ELSE << [kind |-> "row", row |-> rows[i].row, message |-> rows[i].message] >>])

\* a structural error that yields no rows and reports nothing
FileError_Silent(text) ==
    [rows |-> <<>>, issues |-> <<>>, counts |-> [valid |-> 0, warnings |-> 0, errors |-> 0]]

FileError(text) ==
    [rows |-> <<>>,
     issues |-> << [kind |-> "file", row |-> 0, message |-> Msg(text, <<>>)] >>,
     counts |-> [valid |-> 0, warnings |-> 0, errors |-> 1]]

ValidatedRows(rows, warnings) ==
    [rows |-> rows,
     issues |-> RowIssues(rows, warnings),
     counts |-> [valid |-> CountStatus(rows, {VALID}),
                 warnings |-> CountStatus(rows, warnings),
                 errors |-> Len(rows) - CountStatus(rows, {VALID} \cup warnings)]]

\* a products validation that counts a multiple-candidates row as an error
_validate_products_excel_MultipleBlocks(products_file, dir) ==
    IF ~products_file.readable THEN FileError("Cannot read Excel file")
    ELSE IF {"title", "slug", "price"} \ products_file.columns # {}
    THEN FileError("Missing required columns")
    ELSE ValidatedRows([i \in 1..Len(products_file.rows) |->
                           _validate_product_row(products_file.rows[i], i - 1, dir)],
                       {ORANGE, EXTERNAL})

_validate_products_excel(products_file, dir) ==
    IF ~products_file.readable THEN FileError("Cannot read Excel file")
    ELSE IF {"title", "slug", "price"} \ products_file.columns # {}
    THEN FileError("Missing required columns")
    ELSE ValidatedRows([i \in 1..Len(products_file.rows) |->
                           _validate_product_row(products_file.rows[i], i - 1, dir)],
                       {ORANGE, EXTERNAL, MULTIPLE})

_validate_pages_excel(pages_file, dir) ==
    IF ~pages_file.readable THEN FileError("Cannot read Excel file")
    ELSE IF {"slug", "title"} \ pages_file.columns # {}
    THEN FileError("Missing required columns")
    ELSE ValidatedRows([i \in 1..Len(pages_file.rows) |->
                           _validate_page_row(pages_file.rows[i], i - 1, dir)],
                       {ORANGE, EXTERNAL})

\* the items that occur twice in a row
_find_duplicates_Adjacent(items) ==
    {items[i] : i \in {j \in 2..Len(items) : items[j - 1] = items[j]}}

\* the items that occur more than once
_find_duplicates(items) ==
    {items[i] : i \in {j \in 1..Len(items) : \E k \in 1..(j - 1) : items[k] = items[j]}}

\* one entry per non-empty slug; a later row of the same slug replaces the earlier one
_generate_image_mapping(all_rows) ==
    LET slugged == {i \in 1..Len(all_rows) : Truthy(Get(all_rows[i], "slug", None))}
        last(s) == CHOOSE i \in slugged :
                      /\ all_rows[i].slug = s
                      /\ \A j \in slugged : all_rows[j].slug = s => j <= i
    IN [s \in {all_rows[i].slug : i \in slugged} |->
          LET row == all_rows[last(s)]
          IN [main_image |-> Get(row, "image_main", None),
              extra_images |-> Get(row, "image_extras", <<>>),
              alt_text |-> Get(Get(row, "data", <<>>), "image_alt_text", Text(<<>>)),
              confidence |-> Get(row, "confidence", "unknown"),
              candidates |-> Get(row, "image_candidates", <<>>)]]

EmptySheetResults == [rows |-> <<>>, issues |-> <<>>,
                      counts |-> [valid |-> 0, warnings |-> 0, errors |-> 0]]

EmptyDict == <<>>

\* names: the slugs a duplicate-slug issue lists (list(set(...)): in no particular order)
GlobalIssue(text, names) ==
    [kind |-> "global", row |-> 0, message |-> Msg(text, <<>>), names |-> names]

\* plan.json: NoPlan when the file is missing, else [k, products, platform_target]
NoPlan == [k |-> "none"]

Plan(products, platform_target) ==
    [k |-> "plan", products |-> products, platform_target |-> platform_target]

SlugsOf(rows) == Flatten([i \in 1..Len(rows) |->
                    IF Truthy(Get(rows[i], "slug", None)) THEN <<rows[i].slug>> ELSE <<>>])

\* the result dict of dry_run_import
dry_run_import(products_file, pages_file, plan, dir) ==
    IF plan = NoPlan
    THEN [products |-> EmptySheetResults, pages |-> EmptySheetResults,
          global_issues |-> << GlobalIssue("Plan not found - cannot validate against requirements", {}) >>,
          image_mapping |-> EmptyDict, summary |-> EmptyDict]
    ELSE
      LET products == IF products_file # NoFile /\ plan.products
                      THEN _validate_products_excel(products_file, dir)
                      ELSE EmptySheetResults
          pages == IF pages_file # NoFile
                   THEN _validate_pages_excel(pages_file, dir)
                   ELSE EmptySheetResults
          duplicate_slugs == _find_duplicates(SlugsOf(products.rows) \o SlugsOf(pages.rows))
          global_issues == IF duplicate_slugs # {}
                           THEN << GlobalIssue("Duplicate slugs found", duplicate_slugs) >>
                           ELSE <<>>
          total_issues == Len(products.issues) + Len(pages.issues) + Len(global_issues)
      IN [products |-> products, pages |-> pages,
          global_issues |-> global_issues,
          image_mapping |-> _generate_image_mapping(products.rows \o pages.rows),
          summary |-> [total_rows |-> Len(products.rows) + Len(pages.rows),
                       total_issues |-> total_issues,
                       products_count |-> Len(products.rows),
                       pages_count |-> Len(pages.rows),
                       ready_to_apply |-> (total_issues = 0)]]

\* the rows of issues.csv for a result
_write_issues_csv(results) ==
    [i \in 1..Len(results.products.issues) |->
        [Type |-> "Products", Severity |-> "Error", Issue |-> results.products.issues[i]]]
    \o
    [i \in 1..Len(results.pages.issues) |->
        [Type |-> "Pages", Severity |-> "Error", Issue |-> results.pages.issues[i]]]
    \o
    [i \in 1..Len(results.global_issues) |->
        [Type |-> "Global", Severity |-> "Error", Issue |-> results.global_issues[i]]]
    \o
    LET rows == results.products.rows \o results.pages.rows
    IN Flatten([i \in 1..Len(rows) |->
          IF rows[i].status \in {ORANGE, MULTIPLE}
          THEN << [Type |-> IF "price" \in DOMAIN Get(rows[i], "data", EmptyDict)
                            THEN "Products" ELSE "Pages",
                   Severity |-> "Warning",
                   Issue |-> [kind |-> "row", row |-> rows[i].row, message |-> rows[i].message]] >>
          ELSE <<>>])

(* ------------------------------ the files ------------------------------ *)

Absent == [exists |-> FALSE]

File(data) == [exists |-> TRUE, data |-> data]

\* the clock is read in ticks; a snapshot's name carries the second only
TicksPerSecond == 2

MaxNow == 3

MaxLog == 4

Second(t) == t \div TicksPerSecond

\* content_before_{%Y%m%d_%H%M%S}.json
SnapshotName(t) == <<"c", "_">> \o NatToStr(Second(t))

\* content_store.json as create_project writes it
ProjectStore ==
    File([products |-> <<>>, pages |-> EmptyDict, global |-> "company", created_at |-> 0,
          updated_at |-> 0])

VARIABLES
    store,           \* _vsbvibe/content_store.json
    snapshots,       \* _vsbvibe/snapshots: file name -> file
    image_map,       \* _vsbvibe/mapping/image_map.json
    issues_csv,      \* _vsbvibe/issues.csv
    import_log,      \* _vsbvibe/logs/import.log, one entry per line
    now,             \* the clock, in ticks
    ret,             \* the last call made and what it returned
    before,          \* the content store file when the last apply_import was called
    import_step,     \* st.session_state.import_step of the step-5 page
    import_results,  \* st.session_state.import_results: the previewed dry-run result
    apply_results,   \* st.session_state.apply_results: what the last apply returned
    calls            \* the apply_import calls in progress, step by step, per caller

\* a session value that is Python's None, and one that was never set
NoResult == [k |-> "none"]

Unset == [k |-> "unset"]

\* the session state of the step-5 page
session == <<import_step, import_results, apply_results>>

vars == <<store, snapshots, image_map, issues_csv, import_log, now, ret, before,
          import_step, import_results, apply_results, calls>>

\* a call's outcome: the call, whether it returned a dict or None, and the dict
Returned(op, value) == [op |-> op, returned |-> "dict", value |-> value]

ReturnedNone(op) == [op |-> op, returned |-> "None", value |-> EmptyDict]

(* ------------------------- content store access ------------------------ *)

\* a load that ignores the store file and starts from the default store
_load_content_store_Fresh(file, t) ==
    [products |-> <<>>, pages |-> EmptyDict, global |-> EmptyDict,
     created_at |-> t, updated_at |-> t]

\* load_json: None for a missing file; _load_content_store then builds the default store
_load_content_store(file, t) ==
    IF file.exists /\ file.data # EmptyDict THEN file.data
    ELSE [products |-> <<>>, pages |-> EmptyDict, global |-> EmptyDict,
          created_at |-> t, updated_at |-> t]

_convert_row_to_product(row, t) ==
    [id |-> row.slug, title |-> row.title, slug |-> row.slug, price |-> row.price,
     images |-> [main |-> Get(row, "image_main", <<>>),
                 extras |-> Get(row, "image_extras", <<>>)],
     created_at |-> t]

_convert_row_to_page(row, t) ==
    [slug |-> row.slug, title |-> row.title,
     hero |-> [image |-> Get(row, "hero_image", <<>>)],
     created_at |-> t]

\* the statuses apply_import writes to the store
AppliedStatuses == {VALID}

AppliedRows(rows) ==
    Flatten([i \in 1..Len(rows) |->
        IF Get(rows[i], "status", None) \in AppliedStatuses THEN <<rows[i]>> ELSE <<>>])

RECURSIVE UpsertPages(_, _, _)
UpsertPages(pages, rows, t) ==
    IF rows = <<>> THEN pages
    ELSE UpsertPages([s \in DOMAIN pages \cup {Head(rows).slug} |->
                         IF s = Head(rows).slug THEN _convert_row_to_page(Head(rows), t)
                         ELSE pages[s]],
                     Tail(rows), t)

\* an apply that appends the imported products to the products the store held
AppliedStore_AppendsProducts(content_store, results, snapshot_path, t) ==
    LET prows == AppliedRows(results.products.rows)
        grows == AppliedRows(results.pages.rows)
        products == IF results.products.rows # <<>>
                    THEN Get(content_store, "products", <<>>)
                         \o [i \in 1..Len(prows) |-> _convert_row_to_product(prows[i], t)]
                    ELSE Get(content_store, "products", <<>>)
        pages == IF results.pages.rows # <<>>
                 THEN UpsertPages(Get(content_store, "pages", EmptyDict), grows, t)
                 ELSE Get(content_store, "pages", EmptyDict)
    IN [k \in DOMAIN content_store \cup {"products", "pages", "updated_at", "last_import"} |->
          IF k = "products" THEN products
          ELSE IF k = "pages" THEN pages
          ELSE IF k = "updated_at" THEN t
          ELSE IF k = "last_import"
          THEN [timestamp |-> t, products_count |-> Len(prows),
                pages_count |-> Len(grows), snapshot_path |-> snapshot_path]
          ELSE content_store[k]]

\* lines 112-141: the store dict apply_import builds in memory
AppliedStore(content_store, results, snapshot_path, t) ==
    LET prows == AppliedRows(results.products.rows)
        grows == AppliedRows(results.pages.rows)
        products == IF results.products.rows # <<>>
                    THEN [i \in 1..Len(prows) |-> _convert_row_to_product(prows[i], t)]
                    ELSE Get(content_store, "products", <<>>)
        pages == IF results.pages.rows # <<>>
                 THEN UpsertPages(Get(content_store, "pages", EmptyDict), grows, t)
                 ELSE Get(content_store, "pages", EmptyDict)
    IN [k \in DOMAIN content_store \cup {"products", "pages", "updated_at", "last_import"} |->
          IF k = "products" THEN products
          ELSE IF k = "pages" THEN pages
          ELSE IF k = "updated_at" THEN t
          ELSE IF k = "last_import"
          THEN [timestamp |-> t, products_count |-> Len(prows),
                pages_count |-> Len(grows), snapshot_path |-> snapshot_path]
          ELSE content_store[k]]

(* ------------------------------- inputs -------------------------------- *)

jpg == image_extensions[1]

png == image_extensions[3]

gif == image_extensions[5]

\* a_main.jpg and a_1.jpg for slug a; l.jpg for slug l; c.png and c.gif both match
\* slug c; nothing for b
ImageDir ==
    [exists |-> TRUE,
     files |-> {<<"a">> \o MainSuffix \o jpg, <<"a", "_", "1">> \o jpg, <<"l">> \o jpg,
                <<"c">> \o png, <<"c">> \o gif},
     listing |-> << <<"c">> \o gif, <<"a", "_", "1">> \o jpg, <<"l">> \o jpg,
                    <<"a">> \o MainSuffix \o jpg, <<"c">> \o png >>]

Url == Http \o <<":", "/", "/", "x">>

ProductRow(title, slug, price) == [title |-> Text(title), slug |-> Text(slug), price |-> price]

RowLamp == ProductRow(<<"l">>, <<"a">>, Text(<<"$", "4", "9", ".", "9", "9">>))

RowMug == ProductRow(<<"m">>, <<"l">>, Num(1250))

RowNoImage == ProductRow(<<"m">>, <<"b">>, Num(999))

RowMulti == ProductRow(<<"c">>, <<"c">>, Num(100))

RowExternal == [title |-> Text(<<"x">>), slug |-> Text(<<"x">>), price |-> Num(500),
                image_main |-> Text(Url)]

\* slug a with an image URL, although a_main.jpg is in the image directory
RowLampUrl == [title |-> Text(<<"l">>), slug |-> Text(<<"a">>), price |-> Num(4999),
               image_main |-> Text(Url)]

\* rows with an empty title cell, a title of one blank, an empty slug cell, a price
\* that is no number, a negative price: pandas reads an empty cell as NaN
RowNoTitle == [title |-> NaN, slug |-> Text(<<"a">>), price |-> Num(100)]

RowBlankTitle == ProductRow(<<" ">>, <<"a">>, Num(100))

RowNoSlug == [title |-> Text(<<"l">>), slug |-> NaN, price |-> Num(100)]

RowBadPrice == ProductRow(<<"l">>, <<"a">>, Text(<<"a", "b", "c">>))

RowNegative == ProductRow(<<"l">>, <<"a">>, Text(<<"$", "-", "5">>))

RowComma == ProductRow(<<"l">>, <<"a">>, Text(<<"1", ",", "2", "5", "0">>))

\* every check fails at once
RowAllBad == ProductRow(<<>>, <<"M", "-", "B">>, Text(<<"a", "b", "c">>))

RowBadSlug == ProductRow(<<"m">>, <<"M", "-", "B">>, Num(999))

ProductColumns == {"title", "slug", "price", "image_main"}

PageRow(title, slug, hero_image) ==
    [title |-> Text(title), slug |-> Text(slug), hero_image |-> hero_image]

PagesAbout == Sheet({"slug", "title", "hero_image"},
                    <<PageRow(<<"m">>, <<"m">>, NaN), PageRow(<<"p">>, <<"p">>, Text(Url))>>)

PagesLamp == Sheet({"slug", "title", "hero_image"}, <<PageRow(<<"a">>, <<"a">>, NaN)>>)

\* two pages of slug p
PagesTwice == Sheet({"slug", "title"}, <<PageRow(<<"p">>, <<"p">>, NaN),
                                         PageRow(<<"x">>, <<" ", "p">>, NaN)>>)

PlanOn == Plan(TRUE, "htmljs")

PlanOff == Plan(FALSE, "streamlit_site")

\* the uploads of a dry run, by name: products file, pages file, plan.json
Uploads ==
    [warnings |-> <<Sheet(ProductColumns, <<RowLamp, RowNoImage>>), PagesAbout, PlanOn>>,
     duplicates |-> <<Sheet(ProductColumns, <<RowLamp, RowLamp>>), NoFile, PlanOn>>,
     invalid |-> <<Sheet(ProductColumns, <<RowExternal, RowMulti, RowBadSlug>>), PagesLamp, PlanOn>>,
     malformed |-> <<Sheet({"title", "slug"}, <<>>), Unreadable, PlanOn>>,
     no_plan |-> <<NoFile, PagesAbout, NoPlan>>,
     disabled |-> <<Sheet(ProductColumns, <<RowLamp>>), PagesLamp, PlanOff>>,
     nothing |-> <<NoFile, NoFile, PlanOn>>,
     flagged |-> <<Sheet(ProductColumns, <<RowMulti, RowNoImage>>), NoFile, PlanOn>>,
     unreadable |-> <<Unreadable, PagesAbout, PlanOn>>,
     catalog |-> <<Sheet(ProductColumns, <<RowLamp, RowMug>>), PagesAbout, PlanOn>>,
     cross |-> <<Sheet(ProductColumns, <<RowLampUrl, RowMulti>>), PagesLamp, PlanOn>>,
     page_twice |-> <<NoFile, PagesTwice, PlanOn>>,
     bad_pages |-> <<Sheet(ProductColumns, <<RowBadSlug>>), Sheet({"title"}, <<>>), PlanOn>>]

\* the uploads the import lifecycle is explored with
ImportInputs == {"warnings", "duplicates", "invalid", "malformed", "no_plan"}

DryRunInputs == DOMAIN Uploads

\* the rows dry_run_import writes to issues.csv, none when it writes no file:
\* the file is written on the one path that reaches line 80, and with issues only
IssuesCsvRows(results) ==
    IF "total_issues" \in DOMAIN results.summary /\ results.summary.total_issues > 0
    THEN _write_issues_csv(results)
    ELSE <<>>

\* a call of dry_run_import: the uploads, the result dict, the rows written to issues.csv
DryRunCall(in) ==
    LET results == dry_run_import(Uploads[in][1], Uploads[in][2], Uploads[in][3], ImageDir)
    IN [in |-> in, results |-> results, csv |-> IssuesCsvRows(results)]

DryRunCalls == {DryRunCall(in) : in \in DryRunInputs}

\* the results apply_import is called with: results dry_run_import returned
DryRunResults == {call.results : call \in {c \in DryRunCalls : c.in \in ImportInputs}}

\* where a call of apply_import meets a failing filesystem operation
ApplyFaults == {"none", "snapshot", "save", "mapping_dir"}

UndoFaults == {"none", "copy", "log"}

\* two sessions that may call apply_import on the same project at once
Callers == {1, 2}

\* a caller that has not called apply_import
Idle == [pc |-> "idle"]

(* ------------------------------- actions ------------------------------- *)

Init ==
    /\ store \in {Absent, ProjectStore}
    /\ snapshots = EmptyDict
    /\ image_map = Absent
    /\ issues_csv = Absent
    /\ import_log = <<>>
    /\ now = 0
    /\ ret = ReturnedNone("none")
    /\ before = Absent
    /\ import_step = "upload"
    /\ import_results = NoResult
    /\ apply_results = Unset
    /\ calls = [p \in Callers |-> Idle]

\* a dry run that also persists the image mapping it computed
DryRun_PersistsMapping(call) ==
    /\ ret' = Returned("dry_run", call.results)
    /\ issues_csv' = IF call.csv # <<>> THEN File(call.csv) ELSE issues_csv
    /\ image_map' = File(call.results.image_mapping)
    /\ UNCHANGED <<store, snapshots, import_log, now, before>>

\* a dry run that counts the rows of an issues CSV left on disk as issues of its own
DryRun_CountsOldCsv(call) ==
    /\ ret' = Returned("dry_run",
                 IF issues_csv.exists /\ "total_issues" \in DOMAIN call.results.summary
                 THEN [call.results EXCEPT
                          !.summary.total_issues = @ + Len(issues_csv.data),
                          !.summary.ready_to_apply = FALSE]
                 ELSE call.results)
    /\ issues_csv' = IF call.csv # <<>> THEN File(call.csv) ELSE issues_csv
    /\ UNCHANGED <<store, snapshots, image_map, import_log, now, before>>

DryRun(call) ==
    /\ ret' = Returned("dry_run", call.results)
    /\ issues_csv' = IF call.csv # <<>> THEN File(call.csv) ELSE issues_csv
    /\ UNCHANGED <<store, snapshots, image_map, import_log, now, before>>

\* _create_content_snapshot: [path, files].  When the snapshot file cannot be written,
\* shutil.copy2 raises and the wrapper returns None; save_json (no store yet) swallows
\* the error and the path of a file that does not exist is returned
_create_content_snapshot(fault, t) ==
    LET snapshot_path == SnapshotName(t)
        written(file) == [n \in DOMAIN snapshots \cup {snapshot_path} |->
                            IF n = snapshot_path THEN file ELSE snapshots[n]]
    IN IF store.exists
       THEN IF fault = "snapshot" THEN [path |-> None, files |-> snapshots]
            ELSE [path |-> snapshot_path, files |-> written(store)]
       ELSE IF fault = "snapshot" THEN [path |-> snapshot_path, files |-> snapshots]
            ELSE [path |-> snapshot_path,
                  files |-> written(File([products |-> <<>>, pages |-> EmptyDict,
                                          global |-> EmptyDict, created_at |-> t]))]

\* a save that keeps the entries of the file it writes over
save_json_Merges(file, data) ==
    LET old == IF file.exists THEN file.data ELSE EmptyDict
    IN File([s \in DOMAIN old \cup DOMAIN data |-> IF s \in DOMAIN data THEN data[s] ELSE old[s]])

\* save_json: the file is opened for writing and holds the data alone
save_json(file, data) == File(data)

Succeeded(r) == r.returned = "dict" /\ Get(r.value, "success", FALSE)

Failed(r) == r.returned = "dict" /\ ~Get(r.value, "success", TRUE)

Apply(results, fault) ==
    /\ now < MaxNow
    /\ Len(import_log) < MaxLog
    /\ before' = store
    /\ UNCHANGED issues_csv
    /\ IF "total_rows" \notin DOMAIN results.summary
       THEN \* line 103 raises KeyError outside the try: the wrapper returns None
            /\ ret' = ReturnedNone("apply")
            /\ UNCHANGED <<store, snapshots, image_map, import_log, now>>
       ELSE LET snap == _create_content_snapshot(fault, now)
                content_store == AppliedStore(_load_content_store(store, now), results,
                                              snap.path, now)
                applied == content_store.last_import
            IN /\ snapshots' = snap.files
               /\ store' = IF fault = "save" THEN store ELSE File(content_store)
               /\ now' = now + 1
               /\ IF fault = "mapping_dir"
                  THEN /\ ret' = Returned("apply", [success |-> FALSE,
                                                    message |-> "Import failed"])
                       /\ UNCHANGED <<image_map, import_log>>
                  ELSE /\ image_map' = save_json(image_map, results.image_mapping)
                       /\ import_log' = Append(import_log, "apply_import")
                       /\ ret' = Returned("apply",
                              [success |-> TRUE,
                               products_applied |-> applied.products_count,
                               pages_applied |-> applied.pages_count,
                               snapshot_path |-> snap.path,
                               message |-> "Import successful"])

NoSnapshot == [success |-> FALSE, message |-> "No snapshot available for undo"]

UndoFailed == [success |-> FALSE, message |-> "Undo failed"]

\* lines 197-199: the snapshot path the current store records, None when it records none
RecordedSnapshot(file, t) ==
    Get(Get(_load_content_store(file, t), "last_import", EmptyDict), "snapshot_path", None)

\* the test of line 201 without os.path.exists
SnapshotAvailable_AnyRecorded(snapshot_path, files) ==
    Truthy(snapshot_path)

\* line 201: a path is recorded and the file is there
SnapshotAvailable(snapshot_path, files) ==
    Truthy(snapshot_path) /\ snapshot_path \in DOMAIN files

\* an undo that restores the newest file of the snapshots directory
SnapshotToRestore_Newest(snapshot_path, files) ==
    CHOOSE n \in DOMAIN files :
        \A m \in DOMAIN files :
            StrToNat(SubSeq(m, 3, Len(m))) <= StrToNat(SubSeq(n, 3, Len(n)))

\* line 208: the file undo copies over the store
SnapshotToRestore(snapshot_path, files) == snapshot_path

\* an undo that uses up the snapshot it restores
Undo_ConsumesSnapshot(fault) ==
    /\ Len(import_log) < MaxLog
    /\ UNCHANGED <<image_map, issues_csv, now, before>>
    /\ LET snapshot_path == RecordedSnapshot(store, now)
           source == SnapshotToRestore(snapshot_path, snapshots)
       IN IF ~SnapshotAvailable(snapshot_path, snapshots)
          THEN /\ ret' = Returned("undo", NoSnapshot)
               /\ UNCHANGED <<store, import_log, snapshots>>
          ELSE IF fault = "copy" \/ source \notin DOMAIN snapshots
          THEN /\ ret' = Returned("undo", UndoFailed)
               /\ UNCHANGED <<store, import_log, snapshots>>
          ELSE /\ store' = snapshots[source]
               /\ snapshots' = [n \in DOMAIN snapshots \ {source} |-> snapshots[n]]
               /\ IF fault = "log"
                  THEN /\ ret' = Returned("undo", UndoFailed)
                       /\ UNCHANGED import_log
                  ELSE /\ ret' = Returned("undo", [success |-> TRUE,
                                                   message |-> "Import successfully undone",
                                                   snapshot_restored |-> snapshot_path])
                       /\ import_log' = Append(import_log, "undo")

Undo(fault) ==
    /\ Len(import_log) < MaxLog
    /\ UNCHANGED <<snapshots, image_map, issues_csv, now, before>>
    /\ LET snapshot_path == RecordedSnapshot(store, now)
           source == SnapshotToRestore(snapshot_path, snapshots)
       IN IF ~SnapshotAvailable(snapshot_path, snapshots)
          THEN /\ ret' = Returned("undo", NoSnapshot)
               /\ UNCHANGED <<store, import_log>>
          ELSE IF fault = "copy" \/ source \notin DOMAIN snapshots
          THEN \* shutil.copy2 raises
               /\ ret' = Returned("undo", UndoFailed)
               /\ UNCHANGED <<store, import_log>>
          ELSE /\ store' = snapshots[source]
               /\ IF fault = "log"
                  THEN \* the import log cannot be opened: the store is already restored
                       /\ ret' = Returned("undo", UndoFailed)
                       /\ UNCHANGED import_log
                  ELSE /\ ret' = Returned("undo", [success |-> TRUE,
                                                   message |-> "Import successfully undone",
                                                   snapshot_restored |-> snapshot_path])
                       /\ import_log' = Append(import_log, "undo")

\* time passes between two calls
Tick ==
    /\ now < MaxNow
    /\ now' = now + 1
    /\ UNCHANGED <<store, snapshots, image_map, issues_csv, import_log, ret, before>>

\* the user deletes a snapshot file
RemoveSnapshot(name) ==
    /\ name \in DOMAIN snapshots
    /\ snapshots' = [n \in DOMAIN snapshots \ {name} |-> snapshots[n]]
    /\ ret' = ReturnedNone("rm")
    /\ UNCHANGED <<store, image_map, issues_csv, import_log, now, before>>

Next ==
    \/ \E results \in DryRunResults, fault \in ApplyFaults :
          Apply(results, fault) /\ UNCHANGED <<session, calls>>
    \/ \E fault \in UndoFaults : Undo(fault) /\ UNCHANGED <<session, calls>>
    \/ Tick /\ UNCHANGED <<session, calls>>
    \/ \E name \in DOMAIN snapshots : RemoveSnapshot(name) /\ UNCHANGED <<session, calls>>

Spec == Init /\ [][Next]_vars

\* the step-5 flow (interfaces/step5.py): validate, apply what was previewed when it
\* is ready to apply, then possibly undo
NextPreview ==
    \/ \E call \in DryRunCalls : DryRun(call) /\ UNCHANGED <<session, calls>>
    \/ /\ ret.op = "dry_run"
       /\ Get(ret.value.summary, "ready_to_apply", FALSE)
       /\ Apply(ret.value, "none")
       /\ UNCHANGED <<session, calls>>
    \/ Undo("none") /\ UNCHANGED <<session, calls>>
    \/ Tick /\ UNCHANGED <<session, calls>>

SpecPreview == Init /\ [][NextPreview]_vars

(* ------------------- the resolver and the row validator ---------------- *)
(* Calls of _map_images_for_slug and _validate_product_row on their own,    *)
(* over several slugs, specified images and image directories.              *)

\* content/images does not exist; it exists and is empty
NoImageDir == [exists |-> FALSE, files |-> {}, listing |-> <<>>]

EmptyImageDir == [exists |-> TRUE, files |-> {}, listing |-> <<>>]

\* a_main.jpg with the extras a_1.jpg, a-1.png and a_2.jpg, and a file of another name
LampDir ==
    [exists |-> TRUE,
     files |-> {<<"a">> \o MainSuffix \o jpg, <<"a", "_", "2">> \o jpg, <<"a", "-", "1">> \o png,
                <<"a", "_", "1">> \o jpg, <<"x", "_", "1">> \o jpg},
     listing |-> << <<"a", "_", "2">> \o jpg, <<"x", "_", "1">> \o jpg, <<"a", "-", "1">> \o png,
                    <<"a">> \o MainSuffix \o jpg, <<"a", "_", "1">> \o jpg >>]

\* l.jpg beside l_main.png; bc.jpg and bm.png, which only start with slug b
MixedDir ==
    [exists |-> TRUE,
     files |-> {<<"l">> \o jpg, <<"l">> \o MainSuffix \o png, <<"b", "c">> \o jpg,
                <<"b", "m">> \o png},
     listing |-> << <<"b", "m">> \o png, <<"l">> \o jpg, <<"b", "c">> \o jpg,
                    <<"l">> \o MainSuffix \o png >>]

\* the same files, returned by os.listdir in another order
MixedDirRelisted ==
    [MixedDir EXCEPT !.listing = << <<"l">> \o MainSuffix \o png, <<"b", "c">> \o jpg,
                                    <<"l">> \o jpg, <<"b", "m">> \o png >>]

ImageDirs == {ImageDir, NoImageDir, EmptyImageDir, LampDir, MixedDir, MixedDirRelisted}

UrlHttps == Http \o <<"s", ":", "/", "/", "x", "/", "a">> \o jpg

\* the image_main cells tried: none, two URLs, a file that is there, one that is not
SpecifiedImages == {<<>>, Url, UrlHttps, <<"a", "_", "1">> \o jpg, <<"p">> \o png}

ResolverSlugs == {<<"a">>, <<"b">>, <<"c">>, <<"l">>, <<"x">>}

ValidatorRows == {RowLamp, RowMug, RowNoImage, RowMulti, RowExternal, RowLampUrl, RowBadSlug,
                  RowNoTitle, RowBlankTitle, RowNoSlug, RowBadPrice, RowNegative, RowAllBad,
                  RowComma}

MapImages(slug, specified_image, dir) ==
    /\ ret' = [op |-> "_map_images_for_slug", returned |-> "dict",
               value |-> _map_images_for_slug(slug, specified_image, dir),
               slug |-> slug, specified_image |-> specified_image, dir |-> dir]
    /\ UNCHANGED <<store, snapshots, image_map, issues_csv, import_log, now, before>>

ValidateProductRow(row, idx, dir) ==
    /\ ret' = [op |-> "_validate_product_row", returned |-> "dict",
               value |-> _validate_product_row(row, idx, dir),
               row |-> row, idx |-> idx, dir |-> dir]
    /\ UNCHANGED <<store, snapshots, image_map, issues_csv, import_log, now, before>>

NextResolver ==
    \/ \E slug \in ResolverSlugs, specified_image \in SpecifiedImages, dir \in ImageDirs :
          MapImages(slug, specified_image, dir) /\ UNCHANGED <<session, calls>>
    \/ \E row \in ValidatorRows, idx \in 0..1, dir \in ImageDirs :
          ValidateProductRow(row, idx, dir) /\ UNCHANGED <<session, calls>>

SpecResolver == Init /\ [][NextResolver]_vars

(* --------------------- apply_import, step by step ---------------------- *)
(* apply_import takes no lock: between its file operations another call on  *)
(* the same project can run.  Each caller makes one call, in the steps of    *)
(* lines 103-172: snapshot, load, change in memory, save, then mapping, log  *)
(* and return.                                                               *)

\* the dry-run results the two callers apply: pages a; products a, l and page m; ...
RaceInputs == {"disabled", "catalog", "warnings"}

RaceResults == {call.results : call \in {c \in DryRunCalls : c.in \in RaceInputs}}

OtherCallRunning(p) == \E q \in Callers \ {p} : calls[q].pc \notin {"idle", "done"}

RaceFrame == UNCHANGED <<issues_csv, ret, before, now, session>>

\* line 103: the call starts; alone records that no other call was in progress
ApplyBegin(p, results) ==
    /\ calls[p].pc = "idle"
    /\ calls' = [calls EXCEPT ![p] = [pc |-> "snapshot", results |-> results,
                                      alone |-> ~OtherCallRunning(p)]]
    /\ UNCHANGED <<store, snapshots, image_map, import_log>>
    /\ RaceFrame

\* line 107
ApplySnapshot(p) ==
    /\ calls[p].pc = "snapshot"
    /\ snapshots' = _create_content_snapshot("none", now).files
    /\ calls' = [calls EXCEPT ![p] =
                    [pc |-> "load", results |-> calls[p].results, alone |-> calls[p].alone,
                     snapshot_path |-> _create_content_snapshot("none", now).path]]
    /\ UNCHANGED <<store, image_map, import_log>>
    /\ RaceFrame

\* line 110
ApplyLoad(p) ==
    /\ calls[p].pc = "load"
    /\ calls' = [calls EXCEPT ![p] =
                    [pc |-> "mutate", results |-> calls[p].results, alone |-> calls[p].alone,
                     snapshot_path |-> calls[p].snapshot_path,
                     content_store |-> _load_content_store(store, now)]]
    /\ UNCHANGED <<store, snapshots, image_map, import_log>>
    /\ RaceFrame

\* lines 112-141
ApplyMutate(p) ==
    /\ calls[p].pc = "mutate"
    /\ calls' = [calls EXCEPT ![p] =
                    [pc |-> "save", results |-> calls[p].results, alone |-> calls[p].alone,
                     snapshot_path |-> calls[p].snapshot_path,
                     content_store |-> AppliedStore(calls[p].content_store, calls[p].results,
                                                    calls[p].snapshot_path, now)]]
    /\ UNCHANGED <<store, snapshots, image_map, import_log>>
    /\ RaceFrame

\* line 144
ApplySave(p) ==
    /\ calls[p].pc = "save"
    /\ store' = File(calls[p].content_store)
    /\ calls' = [calls EXCEPT ![p].pc = "finish"]
    /\ UNCHANGED <<snapshots, image_map, import_log>>
    /\ RaceFrame

\* lines 146-172
ApplyFinish(p) ==
    /\ calls[p].pc = "finish"
    /\ image_map' = save_json(image_map, calls[p].results.image_mapping)
    /\ import_log' = Append(import_log, "apply_import")
    /\ calls' = [calls EXCEPT ![p] =
                    [pc |-> "done", results |-> calls[p].results, alone |-> calls[p].alone,
                     returned |-> [success |-> TRUE,
                                   products_applied |-> calls[p].content_store.last_import.products_count,
                                   pages_applied |-> calls[p].content_store.last_import.pages_count,
                                   snapshot_path |-> calls[p].snapshot_path,
                                   message |-> "Import successful"]]]
    /\ UNCHANGED <<store, snapshots>>
    /\ RaceFrame

NextRace ==
    \/ \E p \in Callers, results \in RaceResults : ApplyBegin(p, results)
    \/ \E p \in Callers : ApplySnapshot(p)
    \/ \E p \in Callers : ApplyLoad(p)
    \/ \E p \in Callers : ApplyMutate(p)
    \/ \E p \in Callers : ApplySave(p)
    \/ \E p \in Callers : ApplyFinish(p)
    \/ Tick /\ UNCHANGED <<session, calls>>

SpecRace == Init /\ [][NextRace]_vars

(* ------------------- safe_page and safe_component ---------------------- *)
(* The decorators of core/errors.py.  The errors module binds ".telemetry"  *)
(* to the telemetry module of its own package: core/telemetry.py, or        *)
(* site/core/telemetry.py for the copy the importer uses.                  *)

Returns(v) == [k |-> "returned", v |-> v]
Raises(e) == [k |-> "raised", e |-> e]

TelemetryModules == {"core", "site.core"}

\* the names the telemetry module defines
Defines(telemetry, name) ==
    IF telemetry = "core"
    THEN name \in {"log_page_view", "log_user_action", "log_generation_event",
                   "log_error", "get_activity_summary"}
    ELSE name \in {"log_event", "log_error", "get_activity_summary"}

\* the required positional parameters of log_error
LogErrorParameters(telemetry) == IF telemetry = "core" THEN 2 ELSE 1

\* what the wrapped function does, and the files error capture works on
WrappedOutcomes ==
    {Returns("result"), Returns("None"), Raises("ValueError"), Raises("KeyError")}

CaptureEnvs ==
    [logs_dir : {"ok", "blocked"},           \* _vsbvibe/logs can be created, or not
     log_file : {"ok", "read_only"},         \* the log file can be opened for writing, or not
     excel    : {"absent", "rows", "foreign"}]  \* error_report.xlsx: none, ours, or a sheet without error_id

WrappedCalls == [func : WrappedOutcomes, telemetry : TelemetryModules, env : CaptureEnvs]

\* the directory is made outside the try block; the write is inside it
_append_to_log(env) ==
    IF env.logs_dir = "blocked" THEN Raises("OSError") ELSE Returns("None")

log_event(env) == _append_to_log(env)

log_error(telemetry, nargs, env) ==
    IF nargs # LogErrorParameters(telemetry) THEN Raises("TypeError")
    ELSE _append_to_log(env)

\* the existing sheet is read inside try; df["error_id"] and the save are not and are
_update_excel_report(env) ==
    IF env.excel = "foreign" THEN Raises("KeyError") ELSE Returns("None")

\* lines 25-81: log_error(error_record), then the Excel report, then the suggestion
\* file (which catches its own failures)
capture_error(error, telemetry, env) ==
    LET logged == log_error(telemetry, 1, env)
        report == _update_excel_report(env)
    IN  IF logged.k = "raised" THEN logged
        ELSE IF report.k = "raised" THEN report
        ELSE Returns("error_id")

\* the except block of both wrappers: capture_error, a guarded message, return None
HandleWrapped(error, telemetry, env) ==
    LET captured == capture_error(error, telemetry, env)
    IN  IF captured.k = "raised" THEN captured ELSE Returns("None")

safe_component(call) ==
    IF call.func.k = "returned" THEN call.func
    ELSE HandleWrapped(call.func.e, call.telemetry, call.env)

safe_page(call) ==
    LET started == IF Defines(call.telemetry, "log_event") THEN log_event(call.env)
                   ELSE Raises("ImportError")
    IN  IF started.k = "raised" THEN HandleWrapped(started.e, call.telemetry, call.env)
        ELSE IF call.func.k = "raised"
             THEN HandleWrapped(call.func.e, call.telemetry, call.env)
        ELSE call.func

SafeFrame ==
    UNCHANGED <<store, snapshots, image_map, issues_csv, import_log, now, before,
                session, calls>>

CallSafeComponent(call) ==
    /\ ret' = [op |-> "safe_component", call |-> call, outcome |-> safe_component(call)]
    /\ SafeFrame

CallSafePage(call) ==
    /\ ret' = [op |-> "safe_page", call |-> call, outcome |-> safe_page(call)]
    /\ SafeFrame

NextSafe ==
    \/ \E call \in WrappedCalls : CallSafeComponent(call)
    \/ \E call \in WrappedCalls : CallSafePage(call)

SpecSafe == Init /\ [][NextSafe]_vars

(* ----------------------- the step-5 import page ------------------------ *)
(* interfaces/step5.py, lines 146-253: one action per button.              *)

\* the faults the import page is explored with: none, and one that fails the apply
Step5Faults == {"none", "mapping_dir"}

\* "Dry Run Validation", shown in upload once a file is uploaded (lines 154-161)
ClickDryRun(call) ==
    /\ import_step = "upload"
    /\ Uploads[call.in][1] # NoFile \/ Uploads[call.in][2] # NoFile
    /\ DryRun(call)
    /\ import_results' = call.results
    /\ import_step' = "preview"
    /\ UNCHANGED apply_results

\* "Run Again", shown in preview when there is a result (lines 166-179)
ClickRunAgain ==
    /\ import_step = "preview"
    /\ import_results # NoResult
    /\ import_step' = "upload"
    /\ import_results' = NoResult
    /\ UNCHANGED <<store, snapshots, image_map, issues_csv, import_log, now, ret, before,
                   apply_results>>

\* "Apply Import", shown in preview when the result is ready to apply (lines 181-188);
\* results["summary"]["ready_to_apply"] raises KeyError on a result without it
ClickApply(fault) ==
    /\ import_step = "preview"
    /\ import_results # NoResult
    /\ Get(import_results.summary, "ready_to_apply", FALSE)
    /\ Apply(import_results, fault)
    /\ apply_results' = IF ret'.returned = "dict" THEN ret'.value ELSE NoResult
    /\ import_step' = "complete"
    /\ UNCHANGED import_results

\* line 208: the page shows the success branch
ApplySucceeded == apply_results # NoResult /\ Get(apply_results, "success", FALSE)

\* "Undo Last Import", shown in complete after a successful apply (lines 225-239)
ClickUndo(fault) ==
    /\ import_step = "complete"
    /\ ApplySucceeded
    /\ Undo(fault)
    /\ IF Succeeded(ret')
       THEN import_step' = "upload" /\ import_results' = NoResult
       ELSE UNCHANGED <<import_step, import_results>>
    /\ UNCHANGED apply_results

\* "Try Again", shown in complete after a failed apply (lines 246-252)
ClickTryAgain ==
    /\ import_step = "complete"
    /\ apply_results # NoResult
    /\ ~ApplySucceeded
    /\ import_step' = "upload"
    /\ import_results' = NoResult
    /\ UNCHANGED <<store, snapshots, image_map, issues_csv, import_log, now, ret, before,
                   apply_results>>

\* "Undo Last Import" of the admin content page, shown whenever the store file exists
\* (modules/admin_interface.py, lines 826-838)
AdminUndo(fault) ==
    /\ store.exists
    /\ Undo(fault)
    /\ UNCHANGED <<session, calls>>

NextStep5 ==
    \/ \E call \in DryRunCalls : ClickDryRun(call) /\ UNCHANGED calls
    \/ ClickRunAgain /\ UNCHANGED calls
    \/ \E fault \in Step5Faults : ClickApply(fault) /\ UNCHANGED calls
    \/ ClickUndo("none") /\ UNCHANGED calls
    \/ ClickTryAgain /\ UNCHANGED calls
    \/ AdminUndo("none")
    \/ Tick /\ UNCHANGED <<session, calls>>

SpecStep5 == Init /\ [][NextStep5]_vars

(* -------------------------------- claims ------------------------------- *)

\* the snapshot path a store file records, None when it records none
PathIn(file) ==
    IF file.exists /\ "last_import" \in DOMAIN file.data
    THEN file.data.last_import.snapshot_path
    ELSE None

\* C1: when apply_import returned success on a store file present on disk and
\* undo_last_import is called next, undo returns success and the store file is what
\* it was immediately before that apply.
C1_UndoRoundTrip ==
    [][(ret.op = "apply" /\ Succeeded(ret) /\ before.exists /\ Undo("none"))
          => (Succeeded(ret') /\ store' = before)]_vars

\* C2: whenever apply_import has written the store file, the written store records a
\* snapshot path, that file exists, and it holds the store as it was before the apply
\* (an empty store when there was no store file).
C2_SnapshotTakenFirst ==
    (ret.op = "apply" /\ store # before) =>
        /\ PathIn(store) # None
        /\ PathIn(store) \in DOMAIN snapshots
        /\ IF before.exists
           THEN snapshots[PathIn(store)] = before
           ELSE /\ snapshots[PathIn(store)].exists
                /\ snapshots[PathIn(store)].data.products = <<>>
                /\ snapshots[PathIn(store)].data.pages = EmptyDict
                /\ snapshots[PathIn(store)].data.global = EmptyDict

\* C3: whenever apply_import returns success = False, the store file is what it was
\* before the call.
C3_ApplyAllOrNothing ==
    (ret.op = "apply" /\ Failed(ret)) => store = before

\* C4: after a successful apply_import of a previewed result, every product row of the
\* result whose status is not invalid has a product in the store, and every page row
\* whose status is not invalid has its page.
C4_EligibleRowsApplied ==
    [][(ret.op = "dry_run" /\ ret'.op = "apply" /\ Succeeded(ret'))
          => LET prows == ret.value.products.rows
                 grows == ret.value.pages.rows
                 products == store'.data.products
             IN /\ \A i \in 1..Len(prows) :
                       prows[i].status # INVALID
                           => \E j \in 1..Len(products) : products[j].slug = prows[i].slug
                /\ \A i \in 1..Len(grows) :
                       grows[i].status # INVALID
                           => grows[i].slug \in DOMAIN store'.data.pages]_vars

\* C5 as stated: after a successful undo_last_import, the next call, an undo again,
\* returns the 'No snapshot available' failure and leaves the store file unchanged
\* (stated where two snapshot files exist: two applies preceded, in different seconds).
C5_UndoDoesNotChain ==
    [][(ret.op = "undo" /\ Succeeded(ret) /\ Cardinality(DOMAIN snapshots) >= 2
          /\ Undo("none"))
          => (ret' = Returned("undo", NoSnapshot) /\ store' = store)]_vars

\* C5 as amended: after a successful undo_last_import, an undo called next returns the
\* 'No snapshot available' failure exactly when the restored store records no snapshot
\* path or one whose file is gone, and then leaves the store file unchanged; when the
\* restored store records an existing snapshot, an undo that succeeds restores that file.
C5_UndoFollowsRecordedSnapshot ==
    [][(ret.op = "undo" /\ Succeeded(ret) /\ \E fault \in UndoFaults : Undo(fault))
          => LET available == PathIn(store) # None /\ PathIn(store) \in DOMAIN snapshots
             IN /\ (ret' = Returned("undo", NoSnapshot)) <=> ~available
                /\ ~available => store' = store
                /\ (available /\ Succeeded(ret')) => store' = snapshots[PathIn(store)]]_vars

\* the first import of a project was undone, and the undo called next found no snapshot
C5_SecondUndoRefused ==
    /\ ret = Returned("undo", NoSnapshot)
    /\ import_log = <<"apply_import", "undo">>
    /\ store = ProjectStore
    /\ before = ProjectStore
    /\ DOMAIN snapshots # {}

\* C6: when the store file records no snapshot path (or there is no store file), or the
\* recorded file is gone, undo_last_import returns a dict with success = False and the
\* 'No snapshot available' message and leaves the store file unchanged.
C6_NoSnapshotUndo ==
    [][((PathIn(store) = None \/ PathIn(store) \notin DOMAIN snapshots)
          /\ \E fault \in UndoFaults : Undo(fault))
          => (ret' = Returned("undo", NoSnapshot) /\ store' = store)]_vars

\* undo was refused on a store that records a snapshot whose file is gone
C6_UndoRefusedFileGone ==
    /\ ret = Returned("undo", NoSnapshot)
    /\ PathIn(store) # None
    /\ PathIn(store) \notin DOMAIN snapshots

\* C7: every apply_import that runs to its end adds exactly one file to the snapshots
\* directory and leaves every file already there as it was.
C7_OneSnapshotPerApply ==
    [][((\E results \in DryRunResults : Apply(results, "none")) /\ Succeeded(ret'))
          => /\ Cardinality(DOMAIN snapshots') = Cardinality(DOMAIN snapshots) + 1
             /\ \A n \in DOMAIN snapshots :
                    n \in DOMAIN snapshots' /\ snapshots'[n] = snapshots[n]]_vars

\* C8: in the store file every product slug occurs once in the products list and every
\* page is stored under its own slug.
C8_SlugsUnique ==
    store.exists =>
        /\ \A i, j \in 1..Len(store.data.products) :
               store.data.products[i].slug = store.data.products[j].slug => i = j
        /\ \A slug \in DOMAIN store.data.pages : store.data.pages[slug].slug = slug

\* C9: a step after which the last call is a dry run leaves the store file, the
\* snapshots directory and the image mapping file as they were.
C9_DryRunNonDestructive ==
    [][ret'.op = "dry_run" =>
          (store' = store /\ snapshots' = snapshots /\ image_map' = image_map)]_vars

\* a dry run that found issues has returned on a project that holds an import
C9_DryRunAfterImport ==
    /\ ret.op = "dry_run"
    /\ ret.value.summary # EmptyDict
    /\ ~ret.value.summary.ready_to_apply
    /\ issues_csv.exists
    /\ PathIn(store) \in DOMAIN snapshots
    /\ image_map.exists
    /\ import_log # <<>>

\* C10: every result dry_run_import returns carries summary.ready_to_apply, true
\* exactly when products.issues, pages.issues and global_issues are all empty.
C10_ReadyToApplyOnEveryPath ==
    ret.op = "dry_run" =>
        /\ "ready_to_apply" \in DOMAIN ret.value.summary
        /\ ret.value.summary.ready_to_apply
               <=> (/\ ret.value.products.issues = <<>>
                    /\ ret.value.pages.issues = <<>>
                    /\ ret.value.global_issues = <<>>)

\* the warning statuses: fuzzy-match and missing-image, external-url, multiple-candidates
WarningStatuses == {ORANGE, EXTERNAL, MULTIPLE}

\* the dry-run calls that return the result the last dry run returned
LastDryRuns == {call \in DryRunCalls : call.results = ret.value}

\* no file of the run was unreadable or lacked a required column
NoFileError(results) ==
    \A issues \in {results.products.issues, results.pages.issues} :
        \A i \in 1..Len(issues) : issues[i].kind # "file"

\* the rows of a result, products first
AllRows(results) == results.products.rows \o results.pages.rows

\* the slugs that more than one row of the result carries
SharedSlugs(results) ==
    {AllRows(results)[i].slug : i \in {j \in 1..Len(AllRows(results)) :
        /\ Truthy(AllRows(results)[j].slug)
        /\ \E k \in 1..Len(AllRows(results)) :
               k # j /\ AllRows(results)[k].slug = AllRows(results)[j].slug}}

\* a collection counts every non-invalid row as valid or warning, every invalid row and
\* a structural file error as an error, and lists no issue for a row of a warning status
WarningsCounted(collection) ==
    LET rows == collection.rows
    IN /\ collection.counts.valid + collection.counts.warnings
              = Cardinality({i \in 1..Len(rows) : rows[i].status # INVALID})
       /\ collection.counts.errors
              = Cardinality({i \in 1..Len(rows) : rows[i].status = INVALID})
                + Cardinality({j \in 1..Len(collection.issues) :
                                  collection.issues[j].kind = "file"})
       /\ \A i \in 1..Len(rows) :
              rows[i].status \in WarningStatuses
                  => \A j \in 1..Len(collection.issues) :
                         collection.issues[j].row # rows[i].row

\* the result has no invalid row, no structural file error and no shared slug
NothingBlocks(results) ==
    /\ \A i \in 1..Len(AllRows(results)) : AllRows(results)[i].status # INVALID
    /\ NoFileError(results)
    /\ SharedSlugs(results) = {}

\* C11 as stated: rows of a warning status are counted as warnings and add no issue;
\* a dry run with no invalid row, no structural file error and no shared slug has
\* total_issues = 0 and ready_to_apply = true; ready_to_apply is false only with one
\* of the three.
C11_WarningsNeverBlock ==
    ret.op = "dry_run" =>
        /\ WarningsCounted(ret.value.products) /\ WarningsCounted(ret.value.pages)
        /\ NothingBlocks(ret.value)
               => /\ Get(ret.value.summary, "total_issues", -1) = 0
                  /\ Get(ret.value.summary, "ready_to_apply", FALSE)
        /\ ~Get(ret.value.summary, "ready_to_apply", TRUE) => ~NothingBlocks(ret.value)

\* C11 as amended: the same, for a dry run of a project whose plan.json is present.
C11_WarningsNeverBlockWithPlan ==
    ret.op = "dry_run" =>
        \A call \in LastDryRuns :
            /\ WarningsCounted(ret.value.products) /\ WarningsCounted(ret.value.pages)
            /\ (Uploads[call.in][3] # NoPlan /\ NothingBlocks(ret.value))
                   => /\ Get(ret.value.summary, "total_issues", -1) = 0
                      /\ Get(ret.value.summary, "ready_to_apply", FALSE)
            /\ ~Get(ret.value.summary, "ready_to_apply", TRUE) => ~NothingBlocks(ret.value)

\* a dry run returned ready to apply with a multiple-candidates row and a missing-image row
C11_ReadyWithWarnings ==
    /\ ret.op = "dry_run"
    /\ Get(ret.value.summary, "ready_to_apply", FALSE)
    /\ \E i \in 1..Len(ret.value.products.rows) : ret.value.products.rows[i].status = MULTIPLE
    /\ \E i \in 1..Len(ret.value.products.rows) : ret.value.products.rows[i].status = ORANGE
    /\ ret.value.products.counts.warnings = 2

\* the duplicate-slug issues among the global issues of a result
DuplicateIssues(results) ==
    {i \in 1..Len(results.global_issues) :
        results.global_issues[i].message.text = "Duplicate slugs found"}

\* C12: when a non-empty slug is carried by more than one row of a dry run's product and
\* page rows, global_issues holds one duplicate-slug issue that names exactly the shared
\* slugs, and ready_to_apply is false.
C12_DuplicateSlugsReported ==
    (ret.op = "dry_run" /\ SharedSlugs(ret.value) # {}) =>
        /\ Cardinality(DuplicateIssues(ret.value)) = 1
        /\ \A i \in DuplicateIssues(ret.value) :
               ret.value.global_issues[i].names = SharedSlugs(ret.value)
        /\ ~Get(ret.value.summary, "ready_to_apply", TRUE)

\* a dry run returned a product row and a page row of the same slug, not next to each
\* other in the run, with no other issue
C12_ProductAndPageShareSlug ==
    /\ ret.op = "dry_run"
    /\ \E i \in 1..Len(ret.value.products.rows), j \in 1..Len(ret.value.pages.rows) :
           /\ ret.value.products.rows[i].slug = ret.value.pages.rows[j].slug
           /\ i < Len(ret.value.products.rows)
    /\ ret.value.products.issues = <<>> /\ ret.value.pages.issues = <<>>
    /\ DuplicateIssues(ret.value) # {}

\* the number of issues a result reports: product, page and global issues
IssueCount(results) ==
    Len(results.products.issues) + Len(results.pages.issues) + Len(results.global_issues)

\* C13: a call of dry_run_import writes the issues CSV of its result when the result
\* reports at least one issue (product, page or global), and leaves the file as it was
\* when the result reports none.
C13_IssuesCsvIffIssues ==
    [][\A call \in DryRunCalls :
          DryRun(call) =>
              /\ IssueCount(call.results) > 0
                     => issues_csv' = File(_write_issues_csv(call.results))
              /\ IssueCount(call.results) = 0 => issues_csv' = issues_csv]_vars

\* the positions of the rows apply_import writes, and the k-th of them in row order
ValidPositions(rows) == {i \in 1..Len(rows) : rows[i].status = VALID}

KthValid(rows, k) ==
    CHOOSE i \in ValidPositions(rows) :
        Cardinality({j \in ValidPositions(rows) : j <= i}) = k

\* an apply of the previewed dry-run result that returns success
SuccessfulApply == ret.op = "dry_run" /\ ret'.op = "apply" /\ Succeeded(ret')

\* C15: after a successful apply whose result has product rows the products list is the
\* valid rows of the result, converted, in row order, and holds no product of the store
\* before; every page of the store before whose slug is not an applied page row is still
\* there unchanged; global and created_at are unchanged.
C15_ProductsReplacedPagesUpserted ==
    [][SuccessfulApply =>
          LET rows == ret.value.products.rows
              prows == ret.value.pages.rows
              old == _load_content_store(store, now)
              new == store'.data
          IN /\ rows # <<>> =>
                   /\ Len(new.products) = Cardinality(ValidPositions(rows))
                   /\ \A k \in 1..Len(new.products) :
                          new.products[k] = _convert_row_to_product(rows[KthValid(rows, k)], now)
                   /\ Range(new.products) \cap Range(old.products) = {}
             /\ \A s \in DOMAIN old.pages :
                   s \notin {prows[i].slug : i \in ValidPositions(prows)}
                       => s \in DOMAIN new.pages /\ new.pages[s] = old.pages[s]
             /\ new.global = old.global
             /\ new.created_at = old.created_at]_vars

\* an apply replaced two products by one other, kept a page it did not import and
\* rewrote one it did
C15_ReplacedAndKept ==
    /\ ret.op = "apply" /\ Succeeded(ret)
    /\ before.exists
    /\ Len(before.data.products) = 2
    /\ Len(store.data.products) = 1
    /\ store.data.products[1] \notin Range(before.data.products)
    /\ \E s \in DOMAIN before.data.pages :
           /\ s \in DOMAIN store.data.pages /\ store.data.pages[s] = before.data.pages[s]
           /\ \E q \in DOMAIN before.data.pages : store.data.pages[q] # before.data.pages[q]

\* C16: a successful apply leaves the image mapping file equal to the image_mapping of
\* the result it was given, and no other step writes the file: the file is always the
\* mapping of the most recent successful apply, with no entry of an earlier import.
C16_MappingLastApplyWins ==
    [][IF ret.op = "dry_run" /\ ret'.op = "apply"
       THEN Succeeded(ret') => /\ image_map'.exists
                               /\ image_map'.data = ret.value.image_mapping
       ELSE image_map' = image_map]_vars

\* after a second successful apply the mapping has no entry for a product of the store
\* before, which the earlier import had mapped
C16_EarlierSlugGone ==
    /\ ret.op = "apply" /\ Succeeded(ret)
    /\ before.exists /\ image_map.exists
    /\ \E k \in 1..Len(before.data.products) :
           before.data.products[k].slug \notin DOMAIN image_map.data
    /\ DOMAIN image_map.data # {}

\* a dry-run result none of whose rows apply_import writes
NothingToImport(results) ==
    ValidPositions(results.products.rows) = {} /\ ValidPositions(results.pages.rows) = {}

\* C17: apply_import called, with nothing failing underneath, with a dry-run result that
\* has no row to import returns success, has written one snapshot of the store before,
\* has written the store with last_import = {0 products, 0 pages, that snapshot} and a
\* fresh updated_at, and has appended one entry to the import log.
C17_ApplyNeverNoOp ==
    [][\A results \in DryRunResults :
          (NothingToImport(results) /\ Apply(results, "none")) =>
              /\ Succeeded(ret')
              /\ ret'.value.snapshot_path \in DOMAIN snapshots'
              /\ store.exists => snapshots'[ret'.value.snapshot_path] = store
              /\ \A n \in DOMAIN snapshots' \ {ret'.value.snapshot_path} :
                     n \in DOMAIN snapshots /\ snapshots'[n] = snapshots[n]
              /\ store'.exists
              /\ store'.data.last_import.products_count = 0
              /\ store'.data.last_import.pages_count = 0
              /\ store'.data.last_import.snapshot_path = ret'.value.snapshot_path
              /\ store'.data.updated_at = now
              /\ Len(import_log') = Len(import_log) + 1]_vars

C19_ExternalImagePrecedence ==
    /\ (ret.op = "_map_images_for_slug" /\ StartsWith(ret.specified_image, Http)) =>
           /\ ret.value.main_image = ret.specified_image
           /\ ret.value.confidence = "external"
           /\ ret.value.main_candidates = <<ret.specified_image>>
           /\ ret.value.extra_images = <<>>
    /\ (/\ ret.op = "_validate_product_row"
        /\ StartsWith(Strip(Str(Get(ret.row, "image_main", Text(<<>>)))), Http)
        /\ "price" \in DOMAIN ret.value) =>
           /\ ret.value.status = EXTERNAL
           /\ ret.value.image_main = Strip(Str(ret.row.image_main))
           /\ ret.value.image_extras = <<>>

\* the resolver was given a URL for slug a while a_main.jpg and a_1.jpg are in the image
\* directory
C19_UrlBesideLocalFile ==
    /\ ret.op = "_map_images_for_slug"
    /\ StartsWith(ret.specified_image, Http)
    /\ ret.dir.exists
    /\ ExactCandidates(ret.slug, ret.dir) # <<>>
    /\ _find_extra_images(ret.slug, ret.dir) # <<>>

\* an uploaded file that cannot be read or lacks one of its required columns
Broken(file, required) ==
    file # NoFile /\ (~file.readable \/ required \ file.columns # {})

\* the global issues of a result that are not its duplicate-slug issue
OtherGlobalIssues(results) ==
    {i \in 1..Len(results.global_issues) : i \notin DuplicateIssues(results)}

\* the file was validated row by row: one result row per spreadsheet row
RowByRow(file, collection) ==
    (file # NoFile /\ ~Broken(file, {})) => Len(collection.rows) = Len(file.rows)

CellEmpty(row, column) ==
    \/ column \notin DOMAIN row
    \/ row[column] = NaN
    \/ row[column].k = "str" /\ Strip(row[column].v) = <<>>

\* the characters a-z (those the inputs use), 0-9, '-', '_' and '/'
LegalSlugChars == {"a", "b", "c", "l", "m", "p", "x", "n", "-", "_", "/"} \cup Range(DigitChars)

\* the message of the first required-field check the row fails, "" when it passes all:
\* title, slug present, slug legal, price
FirstFailingCheck(row) ==
    LET price == ParseFloat(Remove(Remove(Str(Get(row, "price", Text(<<>>))), "$"), ","))
    IN IF CellEmpty(row, "title") THEN "Missing title"
       ELSE IF CellEmpty(row, "slug") THEN "Missing slug"
       ELSE IF \E i \in 1..Len(Str(row.slug)) : Str(row.slug)[i] \notin LegalSlugChars
       THEN "Slug not URL-safe"
       ELSE IF ~price.ok THEN "Price must be numeric"
       ELSE IF ~price.nan /\ price.v < 0 THEN "Price cannot be negative"
       ELSE ""

\* C21: a product row that fails a required-field check (title empty or absent, slug
\* empty or absent, slug with a character outside [a-z0-9-_/], price non-numeric or
\* negative) is returned invalid with the message of the first check it fails, with its
\* slug as written and with no image field.
C21_RequiredFieldsShortCircuit ==
    (ret.op = "_validate_product_row" /\ FirstFailingCheck(ret.row) # "") =>
        /\ ret.value.status = INVALID
        /\ ret.value.message.text = FirstFailingCheck(ret.row)
        /\ "slug" \in DOMAIN ret.row /\ ret.row.slug # NaN => ret.value.slug = ret.row.slug.v
        /\ DOMAIN ret.value \cap {"image_main", "image_extras", "image_candidates"} = {}

\* the files named {slug}{ext} or {slug}_main{ext}
MainFiles(slug, dir) ==
    {f \in dir.files : \E e \in 1..Len(image_extensions) :
        f = slug \o image_extensions[e] \/ f = slug \o MainSuffix \o image_extensions[e]}

\* the files named {slug}_{i}{ext} or {slug}-{i}{ext}, i in 1..9
ExtraFiles(slug, dir) ==
    {f \in dir.files : \E e \in 1..Len(image_extensions), i \in 1..9, sep \in {"_", "-"} :
        f = slug \o <<sep, Digits[i]>> \o image_extensions[e]}

\* the number i in the extra image name {slug}{sep}{i}{ext}
ExtraIndex(slug, f) == CHOOSE i \in 1..9 : Digits[i] = f[Len(slug) + 2]

\* the text of a price cell with every '$' and ',' taken out
PriceText(cell) == SelectSeq(Str(cell), LAMBDA c : c \notin {"$", ","})

\* C22: a product row that passes the required-field checks, has no specified image and
\* exactly one file {slug}{ext} or {slug}_main{ext} in the image directory is valid with
\* that file as main_image; extra_images holds exactly the existing {slug}_{i}{ext} and
\* {slug}-{i}{ext}, once each, i never decreasing; price is the number the cell reads as
\* once '$' and ',' are removed.
C22_ExactMatchWithExtras ==
    (/\ ret.op = "_validate_product_row"
     /\ "price" \in DOMAIN ret.value
     /\ CellEmpty(ret.row, "image_main")
     /\ ret.dir.exists
     /\ Cardinality(MainFiles(ret.value.slug, ret.dir)) = 1) =>
        LET extras == ret.value.image_extras
        IN /\ ret.value.status = VALID
           /\ ret.value.image_main \in MainFiles(ret.value.slug, ret.dir)
           /\ Range(extras) = ExtraFiles(ret.value.slug, ret.dir)
           /\ Len(extras) = Cardinality(ExtraFiles(ret.value.slug, ret.dir))
           /\ \A p, q \in 1..Len(extras) :
                  p < q => ExtraIndex(ret.value.slug, extras[p]) <= ExtraIndex(ret.value.slug, extras[q])
           /\ ret.value.price = ParseFloat(PriceText(ret.row.price))
           /\ ret.value.price.ok /\ ~ret.value.price.nan

\* the row {slug a, price $49.99} was validated with a_main.jpg, a_1.jpg, a-1.png and
\* a_2.jpg in the directory: three extras, price 49.99
C22_LampWithThreeExtras ==
    /\ ret.op = "_validate_product_row"
    /\ ret.dir = LampDir
    /\ ret.row = RowLamp
    /\ ret.value.status = VALID
    /\ ret.value.image_main = <<"a">> \o MainSuffix \o jpg
    /\ Len(ret.value.image_extras) = 3
    /\ ret.value.price.v = 4999

\* what the resolver returned for the product row last validated
Resolved ==
    _map_images_for_slug(ret.value.slug,
                         Strip(Str(Get(ret.row, "image_main", Text(<<>>)))), ret.dir)

\* a product row was validated and passed the required-field checks
RowReachedResolver == ret.op = "_validate_product_row" /\ "price" \in DOMAIN ret.value

\* C23: a product row that passes the required-field checks and for which the resolver
\* returns confidence fuzzy has the fuzzy-match status, and its message names the main
\* image chosen.
C23_FuzzyIsFuzzyMatch ==
    (RowReachedResolver /\ Resolved.confidence = "fuzzy") =>
        /\ ret.value.status = ORANGE
        /\ ret.value.message = Msg("Fuzzy image match", <<Resolved.main_image>>)

\* C24: a product row that passes the required-field checks has the multiple-candidates
\* status exactly when the resolver found more than one main candidate and none of
\* them contains _main; when one does, it is the main image, with confidence exact,
\* and the row is not flagged.
C24_MultipleOnlyWhenUnresolved ==
    RowReachedResolver =>
        LET mains == {i \in 1..Len(Resolved.main_candidates) :
                         Contains(Resolved.main_candidates[i], MainSuffix)}
        IN /\ ret.value.status = MULTIPLE
                  <=> (Len(Resolved.main_candidates) > 1 /\ mains = {})
           /\ (Len(Resolved.main_candidates) > 1 /\ mains # {}) =>
                  /\ Contains(ret.value.image_main, MainSuffix)
                  /\ Resolved.confidence = "exact"
                  /\ ret.value.status # MULTIPLE

\* the resolver's classifications
Confidences == {"external", "manual", "exact", "fuzzy", "none"}

\* what the resolver returned for a validated row of a dry run: it was given the row's
\* image_main cell, or hero_image for a page row
ResolvedFor(row) ==
    _map_images_for_slug(row.slug,
                         Strip(Str(Get(row.data,
                                       IF "price" \in DOMAIN row THEN "image_main"
                                       ELSE "hero_image",
                                       Text(<<>>)))),
                         ImageDir)

\* C25: for every row of a dry run that went through the resolver, the image mapping
\* entry of its slug (of the last such row, when rows share a slug) has the main_image,
\* extra_images, candidates and confidence the resolver returned for the row, and the
\* confidence is one of external, manual, exact, fuzzy, none.
C25_MappingReflectsResolver ==
    ret.op = "dry_run" =>
        LET rows == AllRows(ret.value)
        IN \A i \in 1..Len(rows) :
              (/\ "data" \in DOMAIN rows[i]
               /\ Truthy(rows[i].slug)
               /\ \A j \in (i + 1)..Len(rows) : rows[j].slug # rows[i].slug) =>
                  LET entry == ret.value.image_mapping[rows[i].slug]
                  IN /\ entry.main_image = ResolvedFor(rows[i]).main_image
                     /\ entry.extra_images = ResolvedFor(rows[i]).extra_images
                     /\ entry.candidates = ResolvedFor(rows[i]).main_candidates
                     /\ entry.confidence = ResolvedFor(rows[i]).confidence
                     /\ entry.confidence \in Confidences

\* C26: the resolver returns the same result (main_image, extra_images, main_candidates,
\* confidence) for the same slug and specified image over any directory that holds the
\* same set of file names, whatever order the listing returns them in.
C26_ResolverDeterministic ==
    ret.op = "_map_images_for_slug" =>
        \A dir \in ImageDirs :
            (dir.exists = ret.dir.exists /\ dir.files = ret.dir.files) =>
                _map_images_for_slug(ret.slug, ret.specified_image, dir) = ret.value

\* both callers' calls of apply_import have returned success
BothApplied == \A p \in Callers : calls[p].pc = "done" /\ calls[p].returned.success

\* the slugs of the page rows the call of p wrote
PagesOf(p) ==
    {calls[p].results.pages.rows[i].slug : i \in ValidPositions(calls[p].results.pages.rows)}

\* C27: when the two calls of apply_import ran one after the other and both returned
\* success, the store holds the pages both of them upserted; the reachable state in
\* which both returned success and the pages of one are missing comes from calls whose
\* steps interleaved.
C27_SerializedAppliesKeepPages ==
    (BothApplied /\ \A p \in Callers : calls[p].alone) =>
        \A p \in Callers : PagesOf(p) \subseteq DOMAIN store.data.pages

\* both calls returned success, their steps interleaved, and the store lacks a page
\* that one of them upserted
C27_LostUpdate ==
    /\ BothApplied
    /\ \E p \in Callers : ~calls[p].alone
    /\ \E p \in Callers : \E slug \in PagesOf(p) : slug \notin DOMAIN store.data.pages

\* C28: a call of a function wrapped by safe_component or safe_page returns the
\* function's result when the function completes and None when it raises; no
\* exception reaches the caller, whatever happens while the error is captured.
C28_SafeWrappersNeverRaise ==
    ret.op \in {"safe_component", "safe_page"} =>
        ret.outcome = IF ret.call.func.k = "returned" THEN ret.call.func
                      ELSE Returns("None")

\* the slugs of the products and pages a store file holds
StoreSlugs(file) ==
    IF ~file.exists THEN {}
    ELSE {Get(file.data, "products", <<>>)[i].slug :
              i \in DOMAIN Get(file.data, "products", <<>>)}
         \cup DOMAIN Get(file.data, "pages", EmptyDict)

\* C29: a successful undo_last_import writes the content store file (the recorded
\* snapshot copied over it) and appends one entry to the import log, and changes
\* nothing else: the persisted image mapping, the issues CSV and every file of the
\* snapshots directory, the restored one included, stay as they were.
C29_UndoRestoresStoreOnly ==
    [][((\E fault \in UndoFaults : Undo(fault)) /\ Succeeded(ret)')
          => /\ store' = snapshots[PathIn(store)]
             /\ import_log' = Append(import_log, "undo")
             /\ image_map' = image_map
             /\ snapshots' = snapshots
             /\ issues_csv' = issues_csv]_vars

\* an import was applied and undone: the snapshot is still on disk and the image
\* mapping names a slug the restored store does not hold
C29_MappingOutlivesImport ==
    /\ ret.op = "undo" /\ Succeeded(ret)
    /\ import_log = <<"apply_import", "undo">>
    /\ ret.value.snapshot_restored \in DOMAIN snapshots
    /\ store = snapshots[ret.value.snapshot_restored]
    /\ image_map.exists
    /\ \E slug \in DOMAIN image_map.data : slug \notin StoreSlugs(store)

\* C30: apply_import, with nothing failing underneath, stamps last_import.products_count
\* with the number of product rows it wrote; with a result whose product row list is
\* empty it leaves the products collection as it was (and stamps 0), and with a
\* non-empty list of which no row is valid it leaves the collection empty.
C30_ProductsTouchedOnlyWithRows ==
    [][\A results \in DryRunResults :
          Apply(results, "none") =>
              LET rows == results.products.rows
                  existing == _load_content_store(store, now).products
              IN /\ store'.exists
                 /\ "last_import" \in DOMAIN store'.data
                 /\ store'.data.last_import.products_count = Cardinality(ValidPositions(rows))
                 /\ rows = <<>> => store'.data.products = existing
                 /\ rows # <<>> => Len(store'.data.products) = Cardinality(ValidPositions(rows))
                 /\ (rows # <<>> /\ ValidPositions(rows) = {}) => store'.data.products = <<>>]_vars

\* C14: the import page is never stuck: in preview and in complete, some button that
\* brings the page back to upload can be pressed with that effect ('Run Again', 'Try
\* Again', or an 'Undo Last Import' that succeeds).
C14_NeverStuck ==
    (import_step # "upload" /\ Len(import_log) < MaxLog) =>
        ENABLED (\/ ClickRunAgain
                 \/ ClickTryAgain
                 \/ ClickUndo("none") /\ import_step' = "upload")

====
